---- MODULE Spec2Model ----
(***************************************************************************)
(* Tabular Q-learning tic-tac-toe: the trainer (train.py), the evaluator   *)
(* (test.py) and the interactive player (gui.py), with the minimax         *)
(* opponent and the persisted Q-table they share.                          *)
(*                                                                         *)
(* Numbers.  Python floats are modelled in fixed point: a Q-value, a       *)
(* reward and epsilon are integers counting millionths (Unit), and the     *)
(* factors alpha, gamma and decay are exact fractions num/den applied with *)
(* rounding to the nearest millionth (Times), as a float product rounds to *)
(* the nearest float.  Minimax scores count hundredths (1 - depth*0.01 is  *)
(* 100 - depth), which keeps their order and their ties exactly.           *)
(*                                                                         *)
(* Cells are indexed 0..8 as in the source.  None is modelled by the       *)
(* string "None" (check_winner) and by NoMove (optimal_move).              *)
(***************************************************************************)
EXTENDS Integers, Sequences, FiniteSets, TLC

VARIABLES
    prog,               \* which script runs: "train", "test" or "gui"
    pc,                 \* position of the script
    qfile,              \* qtable.pkl: [kind: "missing" | "corrupt" | "table", table]
    Q,                  \* the Q-table: state key -> (action -> value)
    board,              \* the 9 cells
    game_history,       \* train.py: (state, action) pairs of the episode
    epsilon,            \* train.py: exploration rate
    use_smart_opponent, \* train.py: the opponent toggle
    episodes,           \* train.py: number of episodes to run
    ep,                 \* train.py: episode counter of the for loop
    wins, losses, draws,\* outcome counters (train.py globals, test_agent locals)
    calls,              \* the update_q_value / update_q calls the last step made
    ROLE_AWARE,         \* test.py: is_role_aware(Q)
    opponent_type,      \* test.py: argument of the running test_agent call
    game,               \* test.py: game counter of the for loop
    results,            \* test.py: the tuples test_agent returned to main
    game_over,          \* gui.py
    ai_memory,          \* gui.py: (state, action) pairs of the game
    resets,             \* gui.py: number of New Game clicks so far
    agentRand, oppRand, \* the values the random source can deliver to each side
    returned, scores    \* optimal_move: the value returned, the scores its loop saw

vars == << prog, pc, qfile, Q, board, game_history, epsilon, use_smart_opponent,
           episodes, ep, wins, losses, draws, calls, ROLE_AWARE, opponent_type,
           game, results, game_over, ai_memory, resets, agentRand, oppRand,
           returned, scores >>

-----------------------------------------------------------------------------
(* Bounds of the model *)

MaxEpisodes == 2
MaxGames == 1
MaxResets == 1
DecayEpisodes == 6810
MaxEmpty == 6

-----------------------------------------------------------------------------
(* Tic Tac Toe environment (train.py 8-37, test.py 4-22) *)

Cells == 0..8

initialize_board == [i \in Cells |-> " "]

win_states ==
    << <<0,1,2>>, <<3,4,5>>, <<6,7,8>>,
       <<0,3,6>>, <<1,4,7>>, <<2,5,8>>,
       <<0,4,8>>, <<2,4,6>> >>

\* for a,b,c in win_states: first triple, in order, that is equal and non-empty
RECURSIVE scan_winner(_, _, _)
scan_winner(b, lines, k) ==
    IF k > Len(lines) THEN "None"
    ELSE LET t == lines[k] IN
         IF b[t[1]] = b[t[2]] /\ b[t[2]] = b[t[3]] /\ b[t[1]] # " "
         THEN b[t[1]]
         ELSE scan_winner(b, lines, k + 1)

\* check_winner with the two diagonals left out of win_states
check_winner_no_diagonals(b) == scan_winner(b, SubSeq(win_states, 1, 6), 1)

\* check_winner that only looks at the rows
check_winner_rows_only(b) == scan_winner(b, SubSeq(win_states, 1, 3), 1)

\* check_winner that tests fullness before the lines: None on a full board
check_winner_full_first(b) ==
    IF \A i \in Cells : b[i] # " " THEN "None" ELSE scan_winner(b, win_states, 1)

check_winner(b) == scan_winner(b, win_states, 1)

\* is_full that never reports a full board
is_full_never(b) == FALSE

is_full(b) == \A i \in Cells : b[i] # " "

\* [i for i in range(9) if board[i] == " "]: ascending
available_moves(b) == SelectSeq(<<0,1,2,3,4,5,6,7,8>>, LAMBDA i : b[i] = " ")

\* "".join(board)
get_state(b) ==
    b[0] \o b[1] \o b[2] \o b[3] \o b[4] \o b[5] \o b[6] \o b[7] \o b[8]

-----------------------------------------------------------------------------
(* Minimax for the smart opponent (train.py 43-81, test.py 25-58) *)

NoMove == -1

Max(a, b) == IF a > b THEN a ELSE b
Min(a, b) == IF a < b THEN a ELSE b

\* the greatest and the least element of a finite set of numbers
MaxSet(S) == CHOOSE x \in S : \A y \in S : y <= x
MinSet(S) == CHOOSE x \in S : \A y \in S : y >= x

\* minimax whose minimizing loop keeps max(best, score) like the maximizing one
RECURSIVE minimax_both_max(_, _, _)
minimax_both_max(b, is_maximizing, depth) ==
    LET winner == check_winner(b)
        moves == {i \in Cells : b[i] = " "}
    IN  IF winner = "O" THEN 100 - depth
        ELSE IF winner = "X" THEN -100 + depth
        ELSE IF is_full(b) THEN 0
        ELSE IF is_maximizing
             THEN MaxSet({-99900} \cup
                    { minimax_both_max([b EXCEPT ![m] = "O"], FALSE, depth + 1) : m \in moves })
             ELSE MaxSet({-99900} \cup
                    { minimax_both_max([b EXCEPT ![m] = "X"], TRUE, depth + 1) : m \in moves })

\* The two loops fold max (from best = -999) and min (from best = 999) over
\* the scores of available_moves(board); the fold of max or min over a list
\* is the greatest or least of the start value and the list's elements.
RECURSIVE minimax(_, _, _)
minimax(b, is_maximizing, depth) ==
    LET winner == check_winner(b)
        moves == {i \in Cells : b[i] = " "}
    IN  IF winner = "O" THEN 100 - depth
        ELSE IF winner = "X" THEN -100 + depth
        ELSE IF is_full(b) THEN 0
        ELSE IF is_maximizing
             THEN MaxSet({-99900} \cup
                    { minimax([b EXCEPT ![m] = "O"], FALSE, depth + 1) : m \in moves })
             ELSE MinSet({99900} \cup
                    { minimax([b EXCEPT ![m] = "X"], TRUE, depth + 1) : m \in moves })

\* optimal_move that keeps the move with the lowest score (best_score from
\* 999, replaced on score < best_score)
RECURSIVE optimal_move_worst_loop(_, _, _, _, _)
optimal_move_worst_loop(b, available, k, best_score, move) ==
    IF k > Len(available) THEN move
    ELSE LET m == available[k]
             score == minimax([b EXCEPT ![m] = "O"], FALSE, 0)
         IN  IF score < best_score
             THEN optimal_move_worst_loop(b, available, k + 1, score, m)
             ELSE optimal_move_worst_loop(b, available, k + 1, best_score, move)

optimal_move_worst(b) == optimal_move_worst_loop(b, available_moves(b), 1, 99900, NoMove)

RECURSIVE optimal_move_loop(_, _, _, _, _)
optimal_move_loop(b, available, k, best_score, move) ==
    IF k > Len(available) THEN move
    ELSE LET m == available[k]
             score == minimax([b EXCEPT ![m] = "O"], FALSE, 0)
         IN  IF score > best_score
             THEN optimal_move_loop(b, available, k + 1, score, m)
             ELSE optimal_move_loop(b, available, k + 1, best_score, move)

optimal_move(b) == optimal_move_loop(b, available_moves(b), 1, -99900, NoMove)

-----------------------------------------------------------------------------
(* The boards an episode can present (train.py 147-220, test.py 106-154):  *)
(* X moves first, the players alternate, and play stops as soon as          *)
(* check_winner names a winner or the board is full.                        *)

Live(b) == check_winner(b) = "None" /\ ~is_full(b)

Placements(b, p) == { [b EXCEPT ![i] = p] : i \in {j \in Cells : b[j] = " "} }

RECURSIVE Reach(_, _, _)
Reach(frontier, acc, p) ==
    IF frontier = {} THEN acc
    ELSE LET next == UNION { Placements(b, p) : b \in {c \in frontier : Live(c)} }
         IN  Reach(next, acc \cup next, IF p = "X" THEN "O" ELSE "X")

ReachableBoards == Reach({initialize_board}, {initialize_board}, "X")

\* optimal_move is a pure function of the board: its value on every board an
\* episode against the smart opponent can present (X to any free cell, O to
\* optimal_move) is computed once here and looked up by the actions.
RECURSIVE SmartReplies(_, _)
SmartReplies(frontier, acc) ==
    IF frontier = {} THEN acc
    ELSE LET replies == { <<b, optimal_move(b)>> : b \in frontier }
             after   == { [r[1] EXCEPT ![r[2]] = "O"] : r \in replies }
             next    == UNION { Placements(b, "X") : b \in {c \in after : Live(c)} }
         IN  SmartReplies({c \in next : Live(c)}, acc \cup replies)

optimal_move_table ==
    LET replies == SmartReplies(Placements(initialize_board, "X"), {})
    IN  [b \in {r[1] : r \in replies} |-> (CHOOSE r \in replies : r[1] = b)[2]]

optimal_move_of(b) ==
    IF b \in DOMAIN optimal_move_table THEN optimal_move_table[b] ELSE optimal_move(b)

-----------------------------------------------------------------------------
(* Q-learning parameters (train.py 94-98, gui.py 6-7, 26) *)

Unit == 10^6                   \* 1.0

alpha_num == 1                 \* alpha = 0.1
alpha_den == 10
gamma_num == 9                 \* gamma = 0.9
gamma_den == 10
epsilon_0 == 300000            \* epsilon = 0.3
epsilon_min == 10000           \* 0.01
decay_num == 1999              \* decay = 0.9995
decay_den == 2000

gui_alpha_num == 1             \* gui.py alpha = 0.5
gui_alpha_den == 2
gui_epsilon == 200000          \* gui.py epsilon = 0.2

\* x * (num / den), rounded to the nearest unit
Times(x, num, den) == (2 * x * num + den) \div (2 * den)

\* random.uniform(0, 1) and random.random(): the least and the greatest draw
UniformDraws == {0, Unit - 1}

\* a choice among all nine cells, whatever the sequence offers
choice_any_cell(seq, r) == r

\* random.choice(seq) when the random source delivers r
choice(seq, r) == seq[(r % Len(seq)) + 1]

\* max(seq) of a non-empty sequence
MaxOf(seq) == MaxSet({seq[k] : k \in DOMAIN seq})

EmptyDict == << >>

Has(d, k) == k \in DOMAIN d

\* d[k] = v on a dict
Put(d, k, v) == [x \in DOMAIN d \cup {k} |-> IF x = k THEN v ELSE d[x]]

\* d.get(k, default)
Get(d, k, default) == IF Has(d, k) THEN d[k] ELSE default

-----------------------------------------------------------------------------
(* Q-learning agent of train.py (100-129) *)

\* Q.get(state, {}).get(action, 0.0)
get_q_value(q, state, action) == Get(Get(q, state, EmptyDict), action, 0)

\* the exploit branch of choose_action: the moves whose Q-value is the maximum
best_moves(q, state, moves) ==
    LET max_q == MaxOf([k \in 1..Len(moves) |-> get_q_value(q, state, moves[k])])
    IN  SelectSeq(moves, LAMBDA m : get_q_value(q, state, m) = max_q)

\* choose_action that plays cell r, free or taken
choose_action_any_cell(q, eps, state, moves, u, r) == r

\* choose_action(state, moves) with the draws u (uniform) and r (choice)
choose_action(q, eps, state, moves, u, r) ==
    IF u < eps THEN choice(moves, r)
    ELSE choice(best_moves(q, state, moves), r)

\* new_q = current_q + alpha * (reward + gamma * next_max_q - current_q)
new_q_value(current_q, reward, next_max_q) ==
    current_q +
      Times(reward + Times(next_max_q, gamma_num, gamma_den) - current_q,
            alpha_num, alpha_den)

\* update_q_value that never bootstraps (next_max_q = 0.0 on every call)
update_q_value_no_bootstrap(q, state, action, reward, next_state, next_moves) ==
    LET q1 == IF Has(q, state) THEN q ELSE Put(q, state, EmptyDict)
        current_q == Get(q1[state], action, 0)
    IN  Put(q1, state, Put(q1[state], action, new_q_value(current_q, reward, 0)))

\* update_q_value: the Q-table after the call
update_q_value(q, state, action, reward, next_state, next_moves) ==
    LET q1 == IF Has(q, state) THEN q ELSE Put(q, state, EmptyDict)
        current_q == Get(q1[state], action, 0)
        next_max_q ==
            IF Len(next_moves) > 0
            THEN MaxOf([k \in 1..Len(next_moves) |->
                           get_q_value(q1, next_state, next_moves[k])])
            ELSE 0
    IN  Put(q1, state, Put(q1[state], action, new_q_value(current_q, reward, next_max_q)))

-----------------------------------------------------------------------------
(* The persisted Q-table, qtable.pkl *)

FileMissing == [kind |-> "missing", table |-> EmptyDict]
FileCorrupt == [kind |-> "corrupt", table |-> EmptyDict]
FileOf(q)   == [kind |-> "table", table |-> q]

\* the table train.py saves after the one episode X0 O1 X2 O3 X4 O5 X6
TrainedTable ==
    [k \in {"         ", "XO       ", "XOXO     ", "XOXOXO   "} |->
        CASE k = "         " -> [a \in {0} |-> 1039100]
          [] k = "XO       " -> [a \in {2} |-> 1029100]
          [] k = "XOXO     " -> [a \in {4} |-> 1019100]
          [] k = "XOXOXO   " -> [a \in {6} |-> 1010000]]

\* a table with role-aware keys (board + "X"), which test.py detects
RoleAwareTable ==
    [k \in {"         X", "O   X    X"} |->
        CASE k = "         X" -> [a \in {4} |-> 500000]
          [] k = "O   X    X" -> [a \in {8} |-> 250000]]

Files == {FileMissing, FileCorrupt, FileOf(EmptyDict), FileOf(TrainedTable),
          FileOf(RoleAwareTable)}

\* train.py never reads the table of the file it finds: one valid file is enough
TrainFiles == {FileMissing, FileOf(TrainedTable)}

-----------------------------------------------------------------------------
(* Training loop of train.py (88-92, 135-276) *)

cfgVars  == << prog, use_smart_opponent, episodes, agentRand, oppRand >>
testVars == << ROLE_AWARE, opponent_type, game, results >>
guiVars  == << game_over, ai_memory, resets >>
searchVars == << returned, scores >>

\* try: with open("qtable.pkl","rb"): Q = pickle.load(f)   except: Q = {}
\* The with statement binds no name, so `f` is unbound when pickle.load(f) is
\* evaluated: a missing file raises FileNotFoundError in open, any other file
\* raises NameError in the body, and the bare except answers both with Q = {}.
train_load(file) ==
    IF file.kind = "missing" THEN EmptyDict   \* FileNotFoundError
    ELSE EmptyDict                            \* NameError: name 'f' is not defined

\* one update_q_value call
Call(state, action, reward, next_state, next_moves) ==
    [fn |-> "update_q_value", state |-> state, action |-> action, reward |-> reward,
     next_state |-> next_state, next_moves |-> next_moves]

\* reward = 10 + (len(game_history) - i) * 0.1, i from enumerate (0-based)
win_reward(len, i) == 10 * Unit + (len - i) * (Unit \div 10)

\* for i, (s, a) in enumerate(game_history): update_q_value(s, a, reward, "", [])
win_updates(history) ==
    [k \in 1..Len(history) |->
        Call(history[k][1], history[k][2], win_reward(Len(history), k - 1), "", << >>)]

\* for s, a in game_history: update_q_value(s, a, reward, "", [])
flat_updates(history, reward) ==
    [k \in 1..Len(history) |-> Call(history[k][1], history[k][2], reward, "", << >>)]

\* the intermediate update made for every pair of the history
step_updates_whole_history(history, b) ==
    [k \in 1..Len(history) |->
        Call(history[k][1], history[k][2], -(Unit \div 100), get_state(b),
             available_moves(b))]

\* the intermediate update of the last move (train.py 222-229)
step_updates(history, b) ==
    IF Len(history) > 0
    THEN << Call(history[Len(history)][1], history[Len(history)][2],
                 -(Unit \div 100), get_state(b), available_moves(b)) >>
    ELSE << >>

\* the Q-table after the calls cs, made in order; q1 is the table after the
\* first call, computed once before the remaining calls are applied to it
RECURSIVE apply_updates(_, _)
apply_updates(q, cs) ==
    IF Len(cs) = 0 THEN q
    ELSE CHOOSE after \in
            { apply_updates(q1, Tail(cs)) :
                q1 \in { update_q_value(q, c.state, c.action, c.reward,
                                        c.next_state, c.next_moves) :
                         c \in {Head(cs)} } } : TRUE

\* if epsilon > epsilon_min: epsilon *= decay
decay_step(eps) ==
    IF eps > epsilon_min THEN Times(eps, decay_num, decay_den) ELSE eps

TrainLoad ==
    /\ prog = "train" /\ pc = "load"
    /\ Q' = train_load(qfile)
    /\ pc' = "for"
    /\ calls' = << >>
    /\ UNCHANGED << qfile, board, game_history, epsilon, ep, wins, losses, draws >>
    /\ UNCHANGED << searchVars, cfgVars, testVars, guiVars >>

\* for ep in range(episodes): board = initialize_board(); game_history = []
TrainFor ==
    /\ prog = "train" /\ pc = "for"
    /\ IF ep < episodes
       THEN /\ board' = initialize_board
            /\ game_history' = << >>
            /\ pc' = "agent"
       ELSE /\ pc' = "save"
            /\ UNCHANGED << board, game_history >>
    /\ calls' = << >>
    /\ UNCHANGED << qfile, Q, epsilon, ep, wins, losses, draws >>
    /\ UNCHANGED << searchVars, cfgVars, testVars, guiVars >>

\* the agent's half of a while iteration (train.py 153-186)
AgentTurn ==
    /\ prog = "train" /\ pc = "agent"
    /\ LET state == get_state(board)
           moves == available_moves(board)
       IN  IF Len(moves) = 0
            THEN /\ pc' = "decay"
                 /\ calls' = << >>
                 /\ UNCHANGED << Q, board, game_history, wins, draws >>
            ELSE \E u \in UniformDraws, r \in agentRand :
                 LET action == choose_action(Q, epsilon, state, moves, u, r)
                     history == Append(game_history, <<state, action>>)
                     b == [board EXCEPT ![action] = "X"]
                     winner == check_winner(b)
                     cs == IF winner = "X" THEN win_updates(history)
                           ELSE IF is_full(b) THEN flat_updates(history, Unit)
                           ELSE << >>
                 IN  /\ board' = b
                     /\ game_history' = history
                     /\ wins' = IF winner = "X" THEN wins + 1 ELSE wins
                     /\ draws' = IF winner # "X" /\ is_full(b) THEN draws + 1 ELSE draws
                     /\ calls' = cs
                     /\ Q' = apply_updates(Q, cs)
                     /\ pc' = IF winner = "X" \/ is_full(b) THEN "decay" ELSE "opp"
    /\ UNCHANGED << qfile, epsilon, ep, losses >>
    /\ UNCHANGED << searchVars, cfgVars, testVars, guiVars >>

\* the opponent's half of a while iteration (train.py 188-229)
OppTurn ==
    /\ prog = "train" /\ pc = "opp"
    /\ LET opp_moves == available_moves(board)
           smart == IF use_smart_opponent THEN optimal_move_of(board) ELSE NoMove
       IN
        IF Len(opp_moves) = 0
        THEN /\ pc' = "decay"
             /\ calls' = << >>
             /\ UNCHANGED << Q, board, losses, draws >>
        ELSE \E r \in oppRand :
             LET opp_action == IF use_smart_opponent /\ smart # NoMove
                               THEN smart
                               ELSE choice(opp_moves, r)
                 b == [board EXCEPT ![opp_action] = "O"]
                 winner == check_winner(b)
                 cs == IF winner = "O" THEN flat_updates(game_history, -10 * Unit)
                       ELSE IF is_full(b) THEN flat_updates(game_history, Unit)
                       ELSE step_updates(game_history, b)
             IN  /\ board' = b
                 /\ losses' = IF winner = "O" THEN losses + 1 ELSE losses
                 /\ draws' = IF winner # "O" /\ is_full(b) THEN draws + 1 ELSE draws
                 /\ calls' = cs
                 /\ Q' = apply_updates(Q, cs)
                 /\ pc' = IF winner = "O" \/ is_full(b) THEN "decay" ELSE "agent"
    /\ UNCHANGED << qfile, game_history, epsilon, ep, wins >>
    /\ UNCHANGED << searchVars, cfgVars, testVars, guiVars >>

\* after the while loop: decay the exploration rate (train.py 231-233)
EndEpisode ==
    /\ prog = "train" /\ pc = "decay"
    /\ epsilon' = decay_step(epsilon)
    /\ ep' = ep + 1
    /\ pc' = "for"
    /\ calls' = << >>
    /\ UNCHANGED << qfile, Q, board, game_history, wins, losses, draws >>
    /\ UNCHANGED << searchVars, cfgVars, testVars, guiVars >>

\* pickle.dump(Q, f) (train.py 270-276)
TrainSave ==
    /\ prog = "train" /\ pc = "save"
    /\ qfile' = FileOf(Q)
    /\ pc' = "done"
    /\ calls' = << >>
    /\ UNCHANGED << Q, board, game_history, epsilon, ep, wins, losses, draws >>
    /\ UNCHANGED << searchVars, cfgVars, testVars, guiVars >>

TrainNext == TrainLoad \/ TrainFor \/ AgentTurn \/ OppTurn \/ EndEpisode \/ TrainSave

-----------------------------------------------------------------------------
(* The evaluator, test.py *)

SmartGames == 1                \* defaults = {"Random": 100_000, "Smart": 1}

\* is_role_aware(Q): len(next(iter(Q))) == 10, True for an empty table.  The
\* first key is whichever the pickled dict lists first.
is_role_aware(q) ==
    IF DOMAIN q = {} THEN {TRUE} ELSE { Len(k) = 10 : k \in DOMAIN q }

\* get_state(board, role) of test.py
test_get_state(role_aware, b, role) ==
    IF role_aware THEN get_state(b) \o role ELSE get_state(b)

\* max(moves, key=...): the first move, in order, with the greatest key; b is
\* the best move after looking at moves[k], computed once before the loop goes on
RECURSIVE first_max(_, _, _, _)
first_max(moves, d, k, best) ==
    IF k > Len(moves) THEN best
    ELSE CHOOSE m \in
            { first_max(moves, d, k + 1, b) :
                b \in { IF Get(d, moves[k], 0) > Get(d, best, 0)
                        THEN moves[k] ELSE best } } : TRUE

\* choose_action of test.py: greedy, random on a state the table does not hold
test_choose_action(q, state, moves, r) ==
    IF ~Has(q, state) THEN choice(moves, r)
    ELSE first_max(moves, q[state], 2, moves[1])

\* choose_action that stores Q[state] = {} for a state the table does not
\* hold, as best_ai_move of gui.py does
test_choose_action_setdefault(q, state, moves) ==
    IF Has(q, state) THEN q ELSE Put(q, state, EmptyDict)

\* choose_action of test.py: the Q-table after the call (`state not in Q` and
\* Q[state].get(a, 0.0) read the table, nothing is stored)
test_choose_action_table(q, state, moves) == q

\* n_games = defaults.get(opponent_type, 10_000) with n_games None
n_games(opp) == IF opp = "Random" THEN MaxGames ELSE SmartGames

\* a load that starts from an empty table when the file is missing (as gui.py)
test_load_recover(file) ==
    IF file.kind = "corrupt" THEN "crash" ELSE "main"

\* where the module-level load of test.py (61-67) leaves the script
test_load(file) ==
    IF file.kind = "missing" THEN "exit"        \* print(...); raise SystemExit
    ELSE IF file.kind = "corrupt" THEN "crash"  \* UnpicklingError, not caught
    ELSE "main"

TestLoad ==
    /\ prog = "test" /\ pc = "load"
    /\ pc' = test_load(qfile)
    /\ IF pc' = "main"
       THEN /\ Q' = qfile.table
            /\ ROLE_AWARE' \in is_role_aware(qfile.table)
       ELSE UNCHANGED << Q, ROLE_AWARE >>
    /\ calls' = << >>
    /\ UNCHANGED << qfile, board, game_history, epsilon, ep, wins, losses, draws >>
    /\ UNCHANGED << searchVars, cfgVars, opponent_type, game, results, guiVars >>

\* main(): test_agent("Random", None), then test_agent("Smart", None), then
\* the summary and exploration_progress()
TestMain ==
    /\ prog = "test" /\ pc = "main"
    /\ IF Len(results) < 2
       THEN /\ opponent_type' = IF Len(results) = 0 THEN "Random" ELSE "Smart"
            /\ wins' = 0 /\ losses' = 0 /\ draws' = 0
            /\ game' = 0
            /\ pc' = "for"
       ELSE /\ pc' = "done"
            /\ UNCHANGED << opponent_type, wins, losses, draws, game >>
    /\ calls' = << >>
    /\ UNCHANGED << qfile, Q, board, game_history, epsilon, ep >>
    /\ UNCHANGED << searchVars, cfgVars, ROLE_AWARE, results, guiVars >>

\* for game in range(n_games): board = initialize_board() ... return
TestFor ==
    /\ prog = "test" /\ pc = "for"
    /\ IF game < n_games(opponent_type)
       THEN /\ board' = initialize_board
            /\ pc' = "agent"
            /\ UNCHANGED results
       ELSE /\ results' = Append(results, <<wins, losses, draws, n_games(opponent_type)>>)
            /\ pc' = "main"
            /\ UNCHANGED board
    /\ calls' = << >>
    /\ UNCHANGED << qfile, Q, game_history, epsilon, ep, wins, losses, draws >>
    /\ UNCHANGED << searchVars, cfgVars, ROLE_AWARE, opponent_type, game, guiVars >>

\* the agent's half of a while iteration (test.py 114-130)
TestAgentTurn ==
    /\ prog = "test" /\ pc = "agent"
    /\ LET moves == available_moves(board) IN
        IF Len(moves) = 0
        THEN /\ pc' = "for" /\ game' = game + 1
             /\ UNCHANGED << Q, board, wins, draws >>
        ELSE \E r \in agentRand :
             LET state == test_get_state(ROLE_AWARE, board, "X")
                 action == test_choose_action(Q, state, moves, r)
                 b == [board EXCEPT ![action] = "X"]
                 winner == check_winner(b)
                 over == winner = "X" \/ is_full(b)
             IN  /\ Q' = test_choose_action_table(Q, state, moves)
                 /\ board' = b
                 /\ wins' = IF winner = "X" THEN wins + 1 ELSE wins
                 /\ draws' = IF winner # "X" /\ is_full(b) THEN draws + 1 ELSE draws
                 /\ pc' = IF over THEN "for" ELSE "opp"
                 /\ game' = IF over THEN game + 1 ELSE game
    /\ calls' = << >>
    /\ UNCHANGED << qfile, game_history, epsilon, ep, losses >>
    /\ UNCHANGED << searchVars, cfgVars, ROLE_AWARE, opponent_type, results, guiVars >>

\* the opponent's half of a while iteration (test.py 132-154)
TestOppTurn ==
    /\ prog = "test" /\ pc = "opp"
    /\ LET opp_moves == available_moves(board)
           smart == IF opponent_type = "Smart" THEN optimal_move_of(board) ELSE NoMove
       IN
        IF Len(opp_moves) = 0
        THEN /\ pc' = "for" /\ game' = game + 1
             /\ UNCHANGED << board, losses, draws >>
        ELSE \E r \in oppRand :
             LET opp_action == IF opponent_type = "Smart" /\ smart # NoMove
                               THEN smart
                               ELSE choice(opp_moves, r)
                 b == [board EXCEPT ![opp_action] = "O"]
                 winner == check_winner(b)
                 over == winner = "O" \/ is_full(b)
             IN  /\ board' = b
                 /\ losses' = IF winner = "O" THEN losses + 1 ELSE losses
                 /\ draws' = IF winner # "O" /\ is_full(b) THEN draws + 1 ELSE draws
                 /\ pc' = IF over THEN "for" ELSE "agent"
                 /\ game' = IF over THEN game + 1 ELSE game
    /\ calls' = << >>
    /\ UNCHANGED << qfile, Q, game_history, epsilon, ep, wins >>
    /\ UNCHANGED << searchVars, cfgVars, ROLE_AWARE, opponent_type, results, guiVars >>

TestNext == TestLoad \/ TestMain \/ TestFor \/ TestAgentTurn \/ TestOppTurn

-----------------------------------------------------------------------------
(* Interactive play, gui.py: the human is O (-1) and clicks first, the AI   *)
(* is X (1); cells hold 0, 1 or -1.                                         *)

GuiNone == 2                   \* the None of gui.py's check_winner

gui_board == [i \in Cells |-> 0]

\* mapping = {0: " ", 1: "X", -1: "O"}
convert_to_training_format(b) ==
    [i \in Cells |-> CASE b[i] = 0 -> " " [] b[i] = 1 -> "X" [] b[i] = -1 -> "O"]

gui_get_state(b) == get_state(convert_to_training_format(b))

gui_available_moves(b) == SelectSeq(<<0,1,2,3,4,5,6,7,8>>, LAMBDA i : b[i] = 0)

RECURSIVE gui_scan_winner(_, _)
gui_scan_winner(b, k) ==
    IF k > Len(win_states)
    THEN IF \A i \in Cells : b[i] # 0 THEN 0 ELSE GuiNone
    ELSE LET t == win_states[k] IN
         IF b[t[1]] = b[t[2]] /\ b[t[2]] = b[t[3]] /\ b[t[3]] # 0
         THEN b[t[1]]
         ELSE gui_scan_winner(b, k + 1)

\* check_winner of gui.py: 1, -1, 0 for a full board without a line, or None
gui_check_winner(b) == gui_scan_winner(b, 1)

\* best_ai_move: the Q-table after the call (it stores Q[state] = {} for a
\* state the table does not hold)
best_ai_move_table(q, b) ==
    IF Len(gui_available_moves(b)) = 0 THEN q
    ELSE IF Has(q, gui_get_state(b)) THEN q
    ELSE Put(q, gui_get_state(b), EmptyDict)

\* best_ai_move that returns None whenever a move is available
best_ai_move_none(q, b, u, r) == NoMove

\* best_ai_move: the move returned, with the draws u (random.random()) and r
best_ai_move(q, b, u, r) ==
    LET moves == gui_available_moves(b)
        d == Get(q, gui_get_state(b), EmptyDict)
    IN  IF Len(moves) = 0 THEN NoMove
        ELSE IF u < gui_epsilon THEN choice(moves, r)
        ELSE LET max_q == MaxOf([k \in 1..Len(moves) |-> Get(d, moves[k], 0)])
             IN  choice(SelectSeq(moves, LAMBDA m : Get(d, m, 0) = max_q), r)

\* max(Q[next_state].values(), default=0.0)
max_value(d) ==
    IF DOMAIN d = {} THEN 0
    ELSE CHOOSE v \in {d[a] : a \in DOMAIN d} : \A a \in DOMAIN d : d[a] <= v

\* update_q: the Q-table after the call
update_q(q, prev_state, action, reward, next_state) ==
    LET q1 == IF Has(q, prev_state) THEN q ELSE Put(q, prev_state, EmptyDict)
        q2 == IF Has(q1[prev_state], action) THEN q1
              ELSE Put(q1, prev_state, Put(q1[prev_state], action, 0))
        q3 == IF Has(q2, next_state) THEN q2 ELSE Put(q2, next_state, EmptyDict)
        old_q == q3[prev_state][action]
        future_q == max_value(q3[next_state])
        new_q == old_q + Times(reward + Times(future_q, gamma_num, gamma_den) - old_q,
                               gui_alpha_num, gui_alpha_den)
    IN  Put(q3, prev_state, Put(q3[prev_state], action, new_q))

GuiCall(state, action, reward, next_state) ==
    [fn |-> "update_q", state |-> state, action |-> action, reward |-> reward,
     next_state |-> next_state]

\* reward of end_game(result)
gui_reward(result) == IF result = 1 THEN Unit ELSE IF result = -1 THEN -Unit ELSE 0

\* for state, action in reversed(ai_memory): update_q(state, action, reward,
\* next_state); next_state = state; reward = 0  -- the calls from entry k down
RECURSIVE end_game_updates(_, _, _, _)
end_game_updates(memory, k, reward, next_state) ==
    IF k = 0 THEN << >>
    ELSE << GuiCall(memory[k][1], memory[k][2], reward, next_state) >>
         \o end_game_updates(memory, k - 1, 0, memory[k][1])

RECURSIVE gui_apply_updates(_, _)
gui_apply_updates(q, cs) ==
    IF Len(cs) = 0 THEN q
    ELSE LET c == Head(cs) IN
         gui_apply_updates(update_q(q, c.state, c.action, c.reward, c.next_state),
                           Tail(cs))

\* the start of gui.py: load or init the Q-table, build the window, reset_game()
GuiLoad ==
    /\ prog = "gui" /\ pc = "load"
    /\ IF qfile.kind = "corrupt"
       THEN \* pickle.load raises UnpicklingError; only FileNotFoundError is caught
            /\ pc' = "crash"
            /\ UNCHANGED << Q, board, game_over, ai_memory >>
       ELSE /\ Q' = IF qfile.kind = "missing" THEN EmptyDict ELSE qfile.table
            /\ board' = gui_board
            /\ game_over' = FALSE
            /\ ai_memory' = << >>
            /\ pc' = "mainloop"
    /\ calls' = << >>
    /\ UNCHANGED << qfile, game_history, epsilon, ep, wins, losses, draws, resets >>
    /\ UNCHANGED << searchVars, cfgVars, testVars >>

\* handle_click(i) on a free cell of a running game (any other click returns
\* at once), with end_game(result) when the click or the AI's answer ends it
HandleClick(i) ==
    /\ prog = "gui" /\ pc = "mainloop"
    /\ board[i] = 0 /\ ~game_over
    /\ \E u \in UniformDraws, r \in agentRand :
        LET b1 == [board EXCEPT ![i] = -1]
            result1 == gui_check_winner(b1)
            state == gui_get_state(b1)
            ai_move == best_ai_move(Q, b1, u, r)
            q1 == IF result1 # GuiNone THEN Q ELSE best_ai_move_table(Q, b1)
            moved == result1 = GuiNone /\ ai_move # NoMove
            memory == IF moved THEN Append(ai_memory, <<state, ai_move>>) ELSE ai_memory
            b2 == IF moved THEN [b1 EXCEPT ![ai_move] = 1] ELSE b1
            result == IF result1 # GuiNone THEN result1
                      ELSE IF moved THEN gui_check_winner(b2) ELSE GuiNone
            cs == IF result # GuiNone
                  THEN end_game_updates(memory, Len(memory), gui_reward(result),
                                        gui_get_state(b2))
                  ELSE << >>
        IN  /\ board' = b2
            /\ ai_memory' = memory
            /\ calls' = cs
            /\ Q' = gui_apply_updates(q1, cs)
            /\ game_over' = (result # GuiNone)
            /\ qfile' = IF result # GuiNone THEN FileOf(Q') ELSE qfile
    /\ pc' = pc
    /\ UNCHANGED << game_history, epsilon, ep, wins, losses, draws, resets >>
    /\ UNCHANGED << searchVars, cfgVars, testVars >>

\* reset_game(), the New Game button
ResetGame ==
    /\ prog = "gui" /\ pc = "mainloop"
    /\ resets < MaxResets
    /\ resets' = resets + 1
    /\ board' = gui_board
    /\ game_over' = FALSE
    /\ ai_memory' = << >>
    /\ calls' = << >>
    /\ UNCHANGED << pc, qfile, Q, game_history, epsilon, ep, wins, losses, draws >>
    /\ UNCHANGED << searchVars, cfgVars, testVars >>

\* root.quit, the Quit button
Quit ==
    /\ prog = "gui" /\ pc = "mainloop"
    /\ pc' = "done"
    /\ calls' = << >>
    /\ UNCHANGED << qfile, Q, board, game_history, epsilon, ep, wins, losses, draws >>
    /\ UNCHANGED << searchVars, cfgVars, testVars, guiVars >>

GuiNext == GuiLoad \/ (\E i \in oppRand : HandleClick(i)) \/ ResetGame \/ Quit

-----------------------------------------------------------------------------
(* The minimax search as the source runs it: on the one board object, each  *)
(* speculative placement written into it and written back to " " after the *)
(* recursive call (train.py 43-81, test.py 25-58).  A call answers with its *)
(* return value and the board it leaves behind.                             *)

RECURSIVE minimax_run(_, _, _)
RECURSIVE minimax_for(_, _, _, _, _, _)

\* the for loop of minimax that leaves every placement on the board
minimax_for_no_undo(b, moves, k, is_maximizing, depth, best) ==
    IF k > Len(moves) THEN << best, b >>
    ELSE LET placed == [b EXCEPT ![moves[k]] = IF is_maximizing THEN "O" ELSE "X"]
             r == minimax_run(placed, ~is_maximizing, depth + 1)
         IN  minimax_for(r[2], moves, k + 1, is_maximizing, depth,
                         IF is_maximizing THEN Max(best, r[1]) ELSE Min(best, r[1]))

\* for move in available_moves(board): board[move] = ...; score = minimax(...);
\* board[move] = " "; best = max/min(best, score)  -- from the k-th move on
minimax_for(b, moves, k, is_maximizing, depth, best) ==
    IF k > Len(moves) THEN << best, b >>
    ELSE LET placed == [b EXCEPT ![moves[k]] = IF is_maximizing THEN "O" ELSE "X"]
             r == minimax_run(placed, ~is_maximizing, depth + 1)
             restored == [r[2] EXCEPT ![moves[k]] = " "]
         IN  minimax_for(restored, moves, k + 1, is_maximizing, depth,
                         IF is_maximizing THEN Max(best, r[1]) ELSE Min(best, r[1]))

\* minimax whose terminal values carry no depth term (1, -1, 0)
minimax_run_no_depth(b, is_maximizing, depth) ==
    LET winner == check_winner(b)
    IN  IF winner = "O" THEN << 100, b >>
        ELSE IF winner = "X" THEN << -100, b >>
        ELSE IF is_full(b) THEN << 0, b >>
        ELSE minimax_for(b, available_moves(b), 1, is_maximizing, depth,
                         IF is_maximizing THEN -99900 ELSE 99900)

\* minimax(board, is_maximizing, depth): << the score, the board afterwards >>
minimax_run(b, is_maximizing, depth) ==
    LET winner == check_winner(b)
    IN  IF winner = "O" THEN << 100 - depth, b >>
        ELSE IF winner = "X" THEN << -100 + depth, b >>
        ELSE IF is_full(b) THEN << 0, b >>
        ELSE minimax_for(b, available_moves(b), 1, is_maximizing, depth,
                         IF is_maximizing THEN -99900 ELSE 99900)

\* what an optimal_move call answers with
Answer(m, b, seen) == [move |-> m, board |-> b, scores |-> seen]

RECURSIVE optimal_move_for(_, _, _, _, _, _)

\* the for loop of optimal_move replacing the incumbent on score >= best_score
optimal_move_for_last_tie(b, available, k, best_score, m0, seen) ==
    IF k > Len(available) THEN Answer(m0, b, seen)
    ELSE LET m == available[k]
             r == minimax_run([b EXCEPT ![m] = "O"], FALSE, 0)
             restored == [r[2] EXCEPT ![m] = " "]
         IN  IF r[1] >= best_score
             THEN optimal_move_for(restored, available, k + 1, r[1], m, Append(seen, r[1]))
             ELSE optimal_move_for(restored, available, k + 1, best_score, m0,
                                   Append(seen, r[1]))

\* for m in available: board[m] = "O"; score = minimax(board, False);
\* board[m] = " "; if score > best_score: best_score = score; move = m
optimal_move_for(b, available, k, best_score, m0, seen) ==
    IF k > Len(available) THEN Answer(m0, b, seen)
    ELSE LET m == available[k]
             r == minimax_run([b EXCEPT ![m] = "O"], FALSE, 0)
             restored == [r[2] EXCEPT ![m] = " "]
         IN  IF r[1] > best_score
             THEN optimal_move_for(restored, available, k + 1, r[1], m, Append(seen, r[1]))
             ELSE optimal_move_for(restored, available, k + 1, best_score, m0,
                                   Append(seen, r[1]))

\* optimal_move that starts from best_score = 999, the start of the minimizing loop
optimal_move_run_high_start(b) ==
    IF Len(available_moves(b)) = 0 THEN Answer(NoMove, b, << >>)
    ELSE optimal_move_for(b, available_moves(b), 1, 99900, NoMove, << >>)

\* optimal_move of train.py (66-81), with its safety check
optimal_move_run(b) ==
    IF Len(available_moves(b)) = 0 THEN Answer(NoMove, b, << >>)
    ELSE optimal_move_for(b, available_moves(b), 1, -99900, NoMove, << >>)

\* optimal_move of test.py (48-58): the same loop, no safety check
test_optimal_move_run(b) ==
    optimal_move_for(b, available_moves(b), 1, -99900, NoMove, << >>)

\* the boards on which X has placed one mark more than O (O is to move, or
\* the board is full, or X has just won), with at most MaxEmpty empty cells
SearchBoards ==
    { b \in ReachableBoards :
        /\ Cardinality({i \in Cells : b[i] = "X"}) = Cardinality({i \in Cells : b[i] = "O"}) + 1
        /\ Cardinality({i \in Cells : b[i] = " "}) <= MaxEmpty }

\* a call optimal_move(board) of the running script's copy
SearchCall ==
    /\ pc = "call"
    /\ LET a == IF prog = "train" THEN optimal_move_run(board)
                ELSE test_optimal_move_run(board)
       IN  /\ returned' = a.move
           /\ scores' = a.scores
           /\ board' = a.board
    /\ pc' = "return"
    /\ UNCHANGED << qfile, Q, game_history, epsilon, ep, wins, losses, draws, calls >>
    /\ UNCHANGED << cfgVars, testVars, guiVars >>

-----------------------------------------------------------------------------
(* Specifications *)

\* what the random source delivers in the trainer and the interactive player,
\* and the cells the human clicks; the evaluator draws without restriction
TrainAgentDraws == {0, 1}
TrainOppDraws == {0}
GuiAgentDraws == {0}
ClickCells == {0, 1, 4, 8}
AllDraws == 0..8

Init ==
    /\ prog \in {"train", "test", "gui"}
    /\ pc = "load"
    /\ qfile \in (IF prog = "train" THEN TrainFiles ELSE Files)
    /\ Q = EmptyDict
    /\ board = IF prog = "gui" THEN gui_board ELSE initialize_board
    /\ game_history = << >>
    /\ epsilon = epsilon_0
    /\ use_smart_opponent \in (IF prog = "train" THEN BOOLEAN ELSE {FALSE})
    /\ episodes = MaxEpisodes
    /\ ep = 0
    /\ wins = 0 /\ losses = 0 /\ draws = 0
    /\ calls = << >>
    /\ ROLE_AWARE = FALSE
    /\ opponent_type = ""
    /\ game = 0
    /\ results = << >>
    /\ game_over = FALSE
    /\ ai_memory = << >>
    /\ resets = 0
    /\ returned = NoMove /\ scores = << >>
    /\ agentRand = CASE prog = "train" -> TrainAgentDraws
                     [] prog = "test" -> AllDraws
                     [] prog = "gui" -> GuiAgentDraws
    /\ oppRand = CASE prog = "train" -> TrainOppDraws
                   [] prog = "test" -> AllDraws
                   [] prog = "gui" -> ClickCells

Next == TrainNext \/ TestNext \/ GuiNext

Spec == Init /\ [][Next]_vars

\* a long training run in which every random.choice delivers the first element
InitDecay ==
    /\ prog = "train"
    /\ pc = "load"
    /\ qfile = FileMissing
    /\ Q = EmptyDict
    /\ board = initialize_board
    /\ game_history = << >>
    /\ epsilon = epsilon_0
    /\ use_smart_opponent = FALSE
    /\ episodes = DecayEpisodes
    /\ ep = 0
    /\ wins = 0 /\ losses = 0 /\ draws = 0
    /\ calls = << >>
    /\ ROLE_AWARE = FALSE
    /\ opponent_type = ""
    /\ game = 0
    /\ results = << >>
    /\ game_over = FALSE
    /\ ai_memory = << >>
    /\ resets = 0
    /\ returned = NoMove /\ scores = << >>
    /\ agentRand = {0}
    /\ oppRand = {0}

SpecDecay == InitDecay /\ [][TrainNext]_vars

\* train.py and test.py run without waiting for anything: a script that can
\* take a step takes one (gui.py waits for clicks, so its steps are not forced)
SpecFair == Init /\ [][Next]_vars /\ WF_vars(TrainNext) /\ WF_vars(TestNext)

\* optimal_move called by either script on a board of SearchBoards
InitSearch ==
    /\ prog \in {"train", "test"}
    /\ pc = "call"
    /\ qfile = FileMissing
    /\ Q = EmptyDict
    /\ board \in SearchBoards
    /\ game_history = << >>
    /\ epsilon = epsilon_0
    /\ use_smart_opponent = TRUE
    /\ episodes = 0
    /\ ep = 0
    /\ wins = 0 /\ losses = 0 /\ draws = 0
    /\ calls = << >>
    /\ ROLE_AWARE = FALSE
    /\ opponent_type = "Smart"
    /\ game = 0
    /\ results = << >>
    /\ game_over = FALSE
    /\ ai_memory = << >>
    /\ resets = 0
    /\ returned = NoMove /\ scores = << >>
    /\ agentRand = {0}
    /\ oppRand = {0}

SpecSearch == InitSearch /\ [][SearchCall]_vars

-----------------------------------------------------------------------------
(* Properties *)

Corners == {0, 2, 6, 8}

\* the cells of b that hold p
CellsOf(b, p) == {i \in Cells : b[i] = p}

\* some triple of win_states is all p
HasLine(b, p) == \E k \in 1..Len(win_states) : \A j \in 1..3 : b[win_states[k][j]] = p

\* win_states scanned from the last triple to the first
reversed_win_states == [k \in 1..Len(win_states) |-> win_states[Len(win_states) + 1 - k]]

\* the evaluator is inside, or past, a game of the running test_agent call
InTestGame == prog = "test" /\ (pc \in {"agent", "opp"} \/ game > 0)

\* the game on the board is against the minimax opponent
AgainstSmart ==
    \/ InTestGame /\ opponent_type = "Smart"
    \/ prog = "train" /\ use_smart_opponent

\* C1: in a game in which X moves first and O always plays optimal_move(board),
\* X never completes a line and no win is ever counted for X.
C1_OptimalNeverLoses ==
    AgainstSmart => check_winner(board) # "X" /\ wins = 0

\* C1 witness: a game of the evaluator against the smart opponent ended in a draw.
C1_Witness ==
    /\ InTestGame /\ opponent_type = "Smart" /\ game = 1
    /\ is_full(board) /\ check_winner(board) = "None" /\ draws = 1

\* C2: the exploration rate never is below epsilon_min.
C2_EpsilonFloor == epsilon >= epsilon_min

\* C3: when an episode ends, the update of every history entry but the last
\* has the next history state as its next state, with that state's legal
\* moves, and only the last entry is updated with an empty next-move set.
C3_TerminalUpdatesChained ==
    /\ (prog = "train" /\ pc = "decay" /\ Len(calls) > 0) =>
          \A k \in 1..Len(calls) :
              /\ calls[k].state = game_history[k][1]
              /\ IF k < Len(calls)
                 THEN /\ calls[k].next_state = game_history[k + 1][1]
                      /\ calls[k].next_moves # << >>
                 ELSE calls[k].next_moves = << >>
    /\ (prog = "gui" /\ game_over /\ Len(calls) > 0) =>
          \A k \in 1..Len(calls) :
              LET j == Len(ai_memory) + 1 - k IN
              /\ calls[k].state = ai_memory[j][1]
              /\ IF j < Len(ai_memory)
                 THEN calls[k].next_state = ai_memory[j + 1][1]
                 ELSE calls[k].next_state = gui_get_state(board)

\* C4: the trainer starts from the persisted table when the file holds one.
C4_TrainerStartsFromPersisted ==
    (prog = "train" /\ pc = "for" /\ ep = 0 /\ qfile.kind = "table") => Q = qfile.table

\* number of X cells minus number of O cells
MarkDifference ==
    IF prog = "gui"
    THEN Cardinality(CellsOf(board, 1)) - Cardinality(CellsOf(board, -1))
    ELSE Cardinality(CellsOf(board, "X")) - Cardinality(CellsOf(board, "O"))

\* C5 as stated: in every variant X moves first, so #X - #O is 0 or 1.
C5_XFirstEverywhere == MarkDifference \in {0, 1}

\* C5 amended: in the trainer and the evaluator X moves first and #X - #O is
\* 0 or 1; in interactive play O (the human) moves first and #X - #O is 0 or -1.
C5_Alternation ==
    IF prog = "gui" THEN MarkDifference \in {-1, 0} ELSE MarkDifference \in {0, 1}

\* C5 witness: interactive play after the human's third click, two AI moves made.
C5_Witness ==
    /\ prog = "gui"
    /\ Cardinality(CellsOf(board, -1)) = 3
    /\ Cardinality(CellsOf(board, 1)) = 2

\* the stored value of (state, action), 0.0 when the table has none
Stored(q, state, action) ==
    IF state \in DOMAIN q /\ action \in DOMAIN q[state] THEN q[state][action] ELSE 0

\* C6: every update_q_value(s, a, reward, next_s, next_moves) call leaves
\* Q[s][a] = old + alpha * (reward + gamma * M - old), with old the value
\* stored before (0.0 if none) and M the greatest stored value of next_s over
\* next_moves (0.0 if next_moves is empty); the entry exists afterwards.
C6_UpdateRule ==
    [][\A k \in 1..Len(calls') :
          LET c == calls'[k] IN
          c.fn = "update_q_value" =>
             LET old == Stored(Q, c.state, c.action)
                 M == IF Len(c.next_moves) = 0 THEN 0
                      ELSE MaxSet({ Stored(Q, c.next_state, c.next_moves[j]) :
                                    j \in 1..Len(c.next_moves) })
             IN  /\ c.state \in DOMAIN Q'
                 /\ c.action \in DOMAIN Q'[c.state]
                 /\ Q'[c.state][c.action] =
                       old + Times(c.reward + Times(M, gamma_num, gamma_den) - old,
                                   alpha_num, alpha_den)]_vars

\* C6 witness: an intermediate update whose next state has a stored value
\* other than 0.0, so that the bootstrapped term counts.
C6_Witness ==
    /\ prog = "train" /\ pc = "agent" /\ Len(calls) = 1
    /\ \E j \in 1..Len(calls[1].next_moves) :
          Stored(Q, calls[1].next_state, calls[1].next_moves[j]) > 0

CenterBoard == [initialize_board EXCEPT ![4] = "X"]

\* C7: against X alone in the center, optimal_move answers with a corner: on
\* the board itself, and in every game in which the smart opponent met it.
C7_CenterReplyIsCorner ==
    /\ optimal_move_of(CenterBoard) \in Corners
    /\ (AgainstSmart /\ CellsOf(board, "X") = {4} /\ Cardinality(CellsOf(board, "O")) = 1)
          => CellsOf(board, "O") \subseteq Corners

\* C7 witness: the evaluator's smart opponent has answered X in the center.
C7_Witness ==
    /\ InTestGame /\ opponent_type = "Smart" /\ pc = "agent"
    /\ CellsOf(board, "X") = {4} /\ Cardinality(CellsOf(board, "O")) = 1

\* total_legal_boards of exploration_progress
total_legal_boards == 5478

\* C8: the boards reachable under the episode rules are exactly 5478, and every board
\* of the trainer and the evaluator is one of them.
C8_ReachableBoards ==
    /\ Cardinality(ReachableBoards) = total_legal_boards
    /\ prog \in {"train", "test"} => board \in ReachableBoards

\* C8 witness: an evaluator game ended on a full board without a winner.
C8_Witness ==
    /\ InTestGame /\ opponent_type = "Random" /\ pc = "for"
    /\ is_full(board) /\ check_winner(board) = "None"

\* the board in the trainer's symbols
SymbolBoard == IF prog = "gui" THEN convert_to_training_format(board) ELSE board

\* C9: no reachable board holds a line of X and a line of O, so check_winner
\* answers the same whichever way it scans the triples; and check_winner
\* answers None on the empty board.
C9_OneWinner ==
    /\ ~(HasLine(SymbolBoard, "X") /\ HasLine(SymbolBoard, "O"))
    /\ check_winner(SymbolBoard) = scan_winner(SymbolBoard, reversed_win_states, 1)
    /\ check_winner(initialize_board) = "None"

\* C9 witness: the opponent completed a line although X moved first.
C9_Witness ==
    /\ InTestGame /\ HasLine(board, "O") /\ Cardinality(CellsOf(board, "X")) = 4

\* C10: with the persisted table missing, the evaluator stops at the load: it
\* places nothing, counts nothing and returns no result.
C10_MissingTableNoEvaluation ==
    (prog = "test" /\ qfile.kind = "missing") =>
        /\ pc \in {"load", "exit"}
        /\ board = initialize_board
        /\ wins = 0 /\ losses = 0 /\ draws = 0
        /\ results = << >>

\* C10 witness: the evaluator has exited on the missing file.
C10_Witness == prog = "test" /\ qfile.kind = "missing" /\ pc = "exit"

\* the cells an O placed on completes a line
WinningCells(b) == {m \in CellsOf(b, " ") : HasLine([b EXCEPT ![m] = "O"], "O")}

\* C11: a call of optimal_move, of the trainer's copy or of the evaluator's,
\* returns None on a board without an empty cell and the index of an empty
\* cell on every other board.
C11_OptimalMoveTotal ==
    pc = "return" =>
        IF CellsOf(board, " ") = {} THEN returned = NoMove
        ELSE returned \in Cells /\ board[returned] = " "

\* C11 witness: the evaluator's copy, which has no safety check, has returned
\* None on a full board.
C11_Witness ==
    /\ prog = "test" /\ pc = "return"
    /\ CellsOf(board, " ") = {} /\ returned = NoMove

\* C12: reading a value or selecting a move never creates Q-table entries: a
\* step of a running script that selects moves and makes no update call
\* leaves the Q-table, its set of state keys included, as it was.
C12_SelectionReadsOnly ==
    [][(pc \notin {"load", "call"} /\ calls' = << >>) => Q' = Q]_vars

\* the evaluator is past its load and running
EvaluatorRunning == prog = "test" /\ pc \in {"main", "for", "agent", "opp", "done"}

\* C13: however many games the evaluator has played, against either
\* opponent, its Q-table is the table it loaded: no entry added, removed or
\* modified.
C13_EvaluatorReadOnly == EvaluatorRunning => Q = qfile.table

\* C13 witness: both test_agent calls have returned, the second one having
\* played on states the loaded table does not hold.
C13_Witness ==
    /\ EvaluatorRunning /\ Len(results) = 2
    /\ Q # EmptyDict
    /\ get_state(board) \notin DOMAIN Q

\* C14: when optimal_move(board) returns, and when minimax(board, ...)
\* returns, every cell of the board holds what it held before the call.
C14_SearchRestoresBoard ==
    [][(pc = "call" /\ pc' = "return") =>
          /\ board' = board
          /\ prog = "train" => minimax_run(board, TRUE, 0)[2] = board]_vars

\* C14 witness: optimal_move has returned from a search that tried four or
\* more placements of its own, each followed by a recursive search.
C14_Witness ==
    /\ pc = "return" /\ Len(scores) >= 4
    /\ check_winner(board) = "None"

\* the minimax score of each legal move of b, in ascending index order: O
\* placed there, X to move, depth 0
MoveScores(b) ==
    [k \in 1..Len(available_moves(b)) |->
        minimax([b EXCEPT ![available_moves(b)[k]] = "O"], FALSE, 0)]

\* the least index of seq that holds its greatest element
FirstMax(seq) == CHOOSE k \in 1..Len(seq) :
    /\ \A j \in 1..Len(seq) : seq[j] <= seq[k]
    /\ \A j \in 1..(k - 1) : seq[j] < seq[k]

\* C15: optimal_move returns the lowest-index legal move whose minimax score
\* equals the greatest score over the legal moves.
C15_FirstBestMove ==
    (pc = "return" /\ CellsOf(board, " ") # {}) =>
        /\ scores = MoveScores(board)
        /\ returned = available_moves(board)[FirstMax(scores)]

\* C15 witness: the greatest score is shared by the returned move and a move
\* of higher index.
C15_Witness ==
    /\ pc = "return" /\ returned # NoMove
    /\ \E k \in 1..Len(scores) :
          /\ available_moves(board)[k] > returned
          /\ \A j \in 1..Len(scores) : scores[j] <= scores[k]

\* C16: on a board still in play with O to move on which some empty cell
\* completes a line of O, optimal_move returns a cell that completes a line
\* of O.
C16_TakesImmediateWin ==
    (pc = "return" /\ Live(board) /\ WinningCells(board) # {}) =>
        returned \in WinningCells(board)

\* C16 witness: optimal_move has returned a winning cell that is not the
\* first empty cell, the cells before it winning nothing at once.
C16_Witness ==
    /\ pc = "return" /\ Live(board)
    /\ returned \in WinningCells(board)
    /\ \E m \in CellsOf(board, " ") : m < returned /\ m \notin WinningCells(board)

\* the step places a mark of p on the board of an episode
Places(p) ==
    /\ prog \in {"train", "test"} /\ pc \in {"agent", "opp"}
    /\ Cardinality(CellsOf(board', p)) = Cardinality(CellsOf(board, p)) + 1

\* C17: a placement that completes a line is counted as a win of the placing
\* player and not as a draw, also when it fills the board; a draw is counted
\* only on a full board without a line.
C17_WinnerBeforeFullness ==
    [][/\ (Places("X") /\ HasLine(board', "X")) => (wins' = wins + 1 /\ draws' = draws)
       /\ (Places("O") /\ HasLine(board', "O")) => (losses' = losses + 1 /\ draws' = draws)
       /\ (Places("X") \/ Places("O")) =>
             \/ draws' = draws
             \/ /\ draws' = draws + 1
                /\ CellsOf(board', " ") = {}
                /\ ~HasLine(board', "X") /\ ~HasLine(board', "O")]_vars

\* C17 witness: X's ninth placement filled the board and completed a line,
\* and the game was counted as a win.
C17_Witness ==
    /\ prog = "test" /\ pc = "for"
    /\ CellsOf(board, " ") = {} /\ HasLine(board, "X")
    /\ wins = 1 /\ draws = 0

\* the opponent's move leaves the training episode in progress
StepInProgress == prog = "train" /\ pc = "opp" /\ pc' = "agent"

\* C18: the step penalty update of a training episode in progress changes
\* the Q-table entry of the last (state, action) pair of the history only:
\* every other entry, those of the earlier pairs among them, keeps its value
\* and no other state key appears.
C18_StepUpdatesLastPairOnly ==
    [][StepInProgress =>
          LET last == game_history[Len(game_history)] IN
          /\ Len(calls') = 1
          /\ DOMAIN Q' = DOMAIN Q \cup {last[1]}
          /\ \A s \in DOMAIN Q', a \in Cells :
                << s, a >> # last => Stored(Q', s, a) = Stored(Q, s, a)
          /\ \A k \in 1..(Len(game_history) - 1) :
                Stored(Q', game_history[k][1], game_history[k][2]) =
                Stored(Q, game_history[k][1], game_history[k][2])]_vars

\* C18 witness: a step update was made with two earlier pairs in the history,
\* both holding a value of their own.
C18_Witness ==
    /\ prog = "train" /\ pc = "agent" /\ Len(calls) = 1
    /\ Len(game_history) = 3
    /\ \A k \in 1..2 : Stored(Q, game_history[k][1], game_history[k][2]) # 0

\* the empty cells of the running script's board
EmptyCells(b) == IF prog = "gui" THEN CellsOf(b, 0) ELSE CellsOf(b, " ")

\* the step is a turn of a game: the agent's or the opponent's half of a
\* while iteration, or a click handled by handle_click
TurnStep ==
    \/ prog \in {"train", "test"} /\ pc \in {"agent", "opp"}
    \/ prog = "gui" /\ pc = "mainloop" /\ resets' = resets /\ pc' = "mainloop"

\* C19: every placement, in the trainer, the evaluator and interactive play,
\* writes to a cell that is empty at that moment: a turn changes empty cells
\* only, one per mark placed, and overwrites no occupied cell.
C19_PlacementsOnEmptyCells ==
    [][TurnStep =>
          /\ \A i \in Cells : board'[i] # board[i] => i \in EmptyCells(board)
          /\ EmptyCells(board') \subseteq EmptyCells(board)
          /\ Cardinality(EmptyCells(board)) - Cardinality(EmptyCells(board')) \in
                (IF prog = "gui" THEN {1, 2} ELSE {1})]_vars

\* C19 witness: interactive play after two clicks, each answered by the AI,
\* with the game still on.
C19_Witness ==
    /\ prog = "gui" /\ ~game_over
    /\ Cardinality(CellsOf(board, -1)) = 2
    /\ Cardinality(CellsOf(board, 1)) = 2

\* C20: when the agent wins a training episode, the reward of the update of
\* a history move is higher the closer the move is to the end of the game.
C20_LaterMovesRewardedMore ==
    (prog = "train" /\ pc = "decay" /\ check_winner(board) = "X") =>
        /\ Len(calls) = Len(game_history)
        /\ \A i, j \in 1..Len(calls) : i < j => calls[i].reward < calls[j].reward

\* a game of the trainer or of the evaluator is in progress
InEpisode == prog \in {"train", "test"} /\ pc \in {"agent", "opp"}

\* C21: every training or evaluation episode increments exactly one of wins,
\* losses and draws, once: the counters add up to the number of completed
\* episodes, and a turn never starts on a board without an empty cell, so
\* the exits that end an episode uncounted are never taken.
C21_EveryEpisodeCounted ==
    /\ (prog = "train" /\ pc \in {"for", "agent", "opp", "save", "done"})
          => wins + losses + draws = ep
    /\ (prog = "train" /\ pc = "decay") => wins + losses + draws = ep + 1
    /\ (prog = "test" /\ pc \in {"for", "agent", "opp"}) => wins + losses + draws = game
    /\ InEpisode => CellsOf(board, " ") # {}

\* C21 witness: two training episodes are completed, one counted as a win
\* and one as a loss.
C21_Witness ==
    /\ prog = "train" /\ pc = "for" /\ ep = 2
    /\ wins = 1 /\ losses = 1 /\ draws = 0

\* the game on the board of the trainer or of the evaluator has ended: a
\* line of X, a line of O, or a full board
Terminal ==
    /\ prog \in {"train", "test"}
    /\ \/ HasLine(board, "X") \/ HasLine(board, "O")
       \/ CellsOf(board, " ") = {}

\* C22: every episode reaches a terminal state after at most 9 placements:
\* each turn of an episode in progress fills one more of the nine cells, and
\* an episode in progress leads to an ended one, whatever the moves.
C22_EpisodesTerminate ==
    /\ [][InEpisode =>
             Cardinality(CellsOf(board', " ")) = Cardinality(CellsOf(board, " ")) - 1]_vars
    /\ [](InEpisode => ~Terminal)
    /\ InEpisode ~> (~InEpisode /\ Terminal)

\* C22 witness: an episode has ended by its ninth placement, without a line.
C22_Witness ==
    /\ prog = "train" /\ pc = "decay"
    /\ CellsOf(board, " ") = {}
    /\ ~HasLine(board, "X") /\ ~HasLine(board, "O")

====
